---- MODULE Spec2Model ----
(***************************************************************************)
(* Model of the recommendation engine of the meal-subscription backend     *)
(* (backend/services/recommendation.py) and of the feedback endpoint that  *)
(* drives it (backend/app.py).                                             *)
(*                                                                         *)
(* Conventions                                                             *)
(*   - a Python str is a tuple of one-character strings, so that lower(),  *)
(*     the substring test `x in tags` and str.join are computed;           *)
(*   - a value that may or may not be a str is [isStr, s];                 *)
(*   - a call that may raise yields [exc, val];                            *)
(*   - ratings, scores and rewards are in tenths (4.8 is 48, 0.5 is 5);    *)
(*   - a dict is a record; a missing key is a missing field.               *)
(***************************************************************************)
EXTENDS Integers, Sequences, FiniteSets, TLC

VARIABLES
    menu_items,         \* the menu_items table of the catalog store
    store_ok,           \* FALSE: reading the store raises
    meals_df,           \* RecommendationEngine.meals_df, the catalog snapshot
    arm_rewards,        \* ContextualBandit.arm_rewards (keys: arms with an entry)
    user_interactions,  \* the user_interactions table (persisted events)
    pc,                 \* "ready": no call in progress; "returned": a call returned
    op,                 \* the operation of the last call
    args,               \* its arguments
    ret,                \* its outcome: [raised, value]
    threads             \* the feedback requests served by concurrent threads

vars == <<menu_items, store_ok, meals_df, arm_rewards, user_interactions,
          pc, op, args, ret, threads>>

----------------------------------------------------------------------------
(* Bounds *)

MaxRows == 3        \* rows of the menu_items table
MaxLimit == 2       \* largest `limit` a caller passes
MaxUpdates == 2     \* record_interaction calls that reach the bandit
MaxRestrictions == 2    \* restrictions in a list handed to the dietary filter alone
MaxThreads == 2     \* feedback requests served at the same time

----------------------------------------------------------------------------
(* Python strings *)

s_vegetarian == <<"v", "e", "g", "e", "t", "a", "r", "i", "a", "n">>
s_Vegetarian == <<"V", "e", "g", "e", "t", "a", "r", "i", "a", "n">>
s_vegan == <<"v", "e", "g", "a", "n">>
s_VEGAN == <<"V", "E", "G", "A", "N">>
s_gluten_free == <<"g", "l", "u", "t", "e", "n", "-", "f", "r", "e", "e">>
s_keto == <<"k", "e", "t", "o">>
s_non_veg == <<"n", "o", "n", "-", "v", "e", "g">>
s_dairy == <<"d", "a", "i", "r", "y">>
s_egg == <<"e", "g", "g">>
s_gluten == <<"g", "l", "u", "t", "e", "n">>
t_non_veg_popular == <<"n", "o", "n", "-", "v", "e", "g", ",", "p", "o", "p", "u", "l", "a", "r">>
t_veg_popular == <<"v", "e", "g", ",", "p", "o", "p", "u", "l", "a", "r">>
t_veg_breakfast == <<"v", "e", "g", ",", "b", "r", "e", "a", "k", "f", "a", "s", "t">>
t_veg_snack == <<"v", "e", "g", ",", "s", "n", "a", "c", "k">>
t_veg_street_food == <<"v", "e", "g", ",", "s", "t", "r", "e", "e", "t", " ", "f", "o", "o", "d">>
t_veg_dairy == <<"v", "e", "g", ",", "d", "a", "i", "r", "y">>
t_veg_Gluten_Free == <<"v", "e", "g", ",", "G", "l", "u", "t", "e", "n", "-", "F", "r", "e", "e">>
t_veg_egg == <<"v", "e", "g", ",", "e", "g", "g">>
t_Non_Veg == <<"N", "o", "n", "-", "V", "e", "g">>

\* str.lower(), on the letters the model's strings use
LowerChar(c) ==
    CASE c = "A" -> "a" [] c = "E" -> "e" [] c = "F" -> "f" [] c = "G" -> "g"
      [] c = "N" -> "n" [] c = "V" -> "v" [] OTHER -> c

Lower(s) == [i \in DOMAIN s |-> LowerChar(s[i])]

\* `needle in hay` for two str
Contains(hay, needle) ==
    \E k \in 0..(Len(hay) - Len(needle)) :
        \A i \in 1..Len(needle) : hay[k + i] = needle[i]

Str(s) == [isStr |-> TRUE, s |-> s]
NotStr == [isStr |-> FALSE, s |-> <<>>]    \* a value that is not a str (5, None)

----------------------------------------------------------------------------
(* Sequences *)

\* s[:n] for an int n >= 0 (a limit is a count: the model passes no negative one)
Take(s, n) == SubSeq(s, 1, IF n < Len(s) THEN n ELSE Len(s))

\* s[:limit]: raises TypeError when limit is not an int
Slice(s, limit) ==
    IF limit.isInt THEN [exc |-> FALSE, val |-> Take(s, limit.n)]
    ELSE [exc |-> TRUE, val |-> <<>>]

\* the sub-sequence of s of the elements at the positions in keep
RECURSIVE SelectAt(_, _, _)
SelectAt(s, keep, i) ==
    IF i > Len(s) THEN <<>>
    ELSE (IF i \in keep THEN <<s[i]>> ELSE <<>>) \o SelectAt(s, keep, i + 1)

\* list.sort(key=..., reverse=True): stable, descending; key[i] is the key of s[i]
SortDesc(s, key) ==
    LET n == Len(s)
        rank(i) == Cardinality({j \in 1..n : key[j] > key[i]})
                   + Cardinality({j \in 1..(i - 1) : key[j] = key[i]}) + 1
    IN  [r \in 1..n |-> s[CHOOSE i \in 1..n : rank(i) = r]]

\* the sequences of k distinct positions of 1..n: what the first k elements of
\* random.shuffle's result can be
RECURSIVE Arrangements(_, _)
Arrangements(S, k) ==
    IF k = 0 THEN {<<>>}
    ELSE UNION {{<<x>> \o a : a \in Arrangements(S \ {x}, k - 1)} : x \in S}

----------------------------------------------------------------------------
(* The catalog store and the catalog snapshot *)

\* rows the menu_items table can hold (init_db.py: id is the primary key)
StoreRows == {
    [id |-> "M101", cuisine |-> "North Indian", rating |-> 45, is_vegetarian |-> 1,
     tags |-> t_Non_Veg, is_available |-> 1],
    [id |-> "M102", cuisine |-> "North Indian", rating |-> 45, is_vegetarian |-> 1,
     tags |-> t_veg_dairy, is_available |-> 1],
    [id |-> "M103", cuisine |-> "South Indian", rating |-> 49, is_vegetarian |-> 1,
     tags |-> t_veg_Gluten_Free, is_available |-> 1],
    [id |-> "M104", cuisine |-> "South Indian", rating |-> 47, is_vegetarian |-> 1,
     tags |-> t_veg_egg, is_available |-> 0] }

StoreTables == UNION {Arrangements(StoreRows, k) : k \in 0..MaxRows}

SampleRow(id, cuisine, rating, veg, tags) ==
    [id |-> id, cuisine |-> cuisine, rating |-> rating, is_vegetarian |-> veg,
     tags |-> tags]

_create_sample_meals == <<
    SampleRow("M001", "North Indian", 48, 0, t_non_veg_popular),
    SampleRow("M002", "North Indian", 47, 1, t_veg_popular),
    SampleRow("M003", "South Indian", 49, 1, t_veg_breakfast),
    SampleRow("M004", "Maharashtrian", 46, 1, t_veg_snack),
    SampleRow("M005", "Hyderabadi", 48, 0, t_non_veg_popular),
    SampleRow("M006", "Punjabi", 45, 1, t_veg_popular),
    SampleRow("M007", "South Indian", 47, 1, t_veg_breakfast),
    SampleRow("M008", "Maharashtrian", 46, 1, t_veg_street_food),
    SampleRow("M009", "North Indian", 45, 1, t_veg_popular),
    SampleRow("M0010", "Hyderabadi", 47, 0, t_non_veg_popular) >>

\* faulty variant: a readable store with no available row yields an empty catalog
_load_meals_data_NoSeedOnZeroRows(table, ok) ==
    IF ok THEN SelectAt(table, {i \in 1..Len(table) : table[i].is_available = 1}, 1)
    ELSE _create_sample_meals

\* SELECT * FROM menu_items WHERE is_available = 1
SelectAvailable(table) ==
    SelectAt(table, {i \in 1..Len(table) : table[i].is_available = 1}, 1)

_load_meals_data(table, ok) ==
    IF ok /\ Len(SelectAvailable(table)) > 0 THEN SelectAvailable(table)
    ELSE _create_sample_meals

\* DataFrame.to_dict('records'): a fresh list of fresh dicts
_filter_candidates(meals) == meals

----------------------------------------------------------------------------
(* Dicts *)

\* dict(row) updated with the keys of fields
With(row, fields) ==
    [k \in DOMAIN row \cup DOMAIN fields |->
        IF k \in DOMAIN fields THEN fields[k] ELSE row[k]]

HasKey(d, k) == k \in DOMAIN d

Elems(s) == {s[i] : i \in DOMAIN s}

\* sep.join(parts), each part and the result a sequence of text pieces
RECURSIVE Join(_, _)
Join(sep, parts) ==
    IF parts = <<>> THEN <<>>
    ELSE IF Len(parts) = 1 THEN parts[1]
    ELSE parts[1] \o sep \o Join(sep, Tail(parts))

----------------------------------------------------------------------------
(* Preference profiles (customer_manager.get_preferences: json.loads of what *)
(* the customer saved, not validated)                                        *)

List(items) == [isList |-> TRUE, items |-> items]
NotAList == [isList |-> FALSE, items |-> <<>>]     \* JSON null

FavoriteLists == {
    List(<<>>), List(<<"North Indian">>), List(<<"South Indian", "North Indian">>),
    NotAList }

RestrictionLists == {
    <<>>,
    <<Str(s_vegetarian)>>,
    <<Str(s_Vegetarian)>>,
    <<Str(s_VEGAN)>>,
    <<Str(s_gluten_free), Str(s_keto)>>,
    <<Str(s_keto)>>,
    <<Str(s_vegetarian), NotStr>>,
    <<NotStr, Str(s_vegan)>> }

\* present = FALSE: preferences is None or {}
NoPreferences ==
    [present |-> FALSE, favorite_cuisines |-> List(<<>>), dietary_restrictions |-> <<>>]

Profiles ==
    {NoPreferences} \cup
    {[present |-> TRUE, favorite_cuisines |-> f, dietary_restrictions |-> r] :
        f \in FavoriteLists, r \in RestrictionLists}

PyInt(n) == [isInt |-> TRUE, n |-> n]
NotAnInt == [isInt |-> FALSE, n |-> 0]
Limits == {PyInt(n) : n \in 0..MaxLimit} \cup {NotAnInt}

----------------------------------------------------------------------------
(* The bandit's statistics *)

ArmIds == {"M001", "M101"}
NoEntry == [present |-> FALSE, count |-> 0, sum_rewards |-> 0]

Ok(v) == [exc |-> FALSE, val |-> v]
Raise == [exc |-> TRUE, val |-> <<>>]

\* try: body / except: handler, over sets of outcomes
TryExcept(body, handler) ==
    UNION {IF o.exc THEN handler ELSE {o} : o \in body}

Min(a, b) == IF a < b THEN a ELSE b

\* an arm with statistics and at least one observation (line 134)
Observed(arms, arm_id) ==
    /\ arm_id \in DOMAIN arms
    /\ arms[arm_id].present
    /\ arms[arm_id].count > 0

ExploreWeight == 3      \* random.random() < 0.3: 3 chances in 10
MaxArms == 100          \* n_arms = min(len(meals_df), 100)
DefaultSelect == 5      \* select_arms(..., n=5)

\* the loop of lines 128-140 from candidate i on; explore[i] is the outcome of
\* `random.random() < 0.3` for candidate i; "KeyError" when a candidate has no id
RECURSIVE SelectLoop(_, _, _, _, _, _)
SelectLoop(arms, available, n, explore, i, selected) ==
    IF i > Len(available) THEN [exc |-> FALSE, val |-> selected]
    ELSE IF ~HasKey(available[i], "id") THEN [exc |-> TRUE, val |-> <<>>]
    ELSE
        LET arm == available[i]
            taken ==
                IF explore[i] THEN Append(selected, arm)
                ELSE IF Observed(arms, arm.id) THEN Append(selected, arm)
                ELSE IF Len(selected) < n THEN Append(selected, arm)
                ELSE selected
        IN  SelectLoop(arms, available, n, explore, i + 1, taken)

\* ContextualBandit.select_arms: the outcome [exc, val]
select_arms(arms, n_arms, available_arms, n, explore) ==
    IF ~n.isInt THEN Raise      \* available[:n] raises, and so does the handler's
    ELSE
        LET available == Take(available_arms, n_arms)
            loop == SelectLoop(arms, Take(available, n.n), n.n, explore, 1, <<>>)
        IN  IF loop.exc THEN Ok(Take(available_arms, n.n))
            ELSE Ok(Take(loop.val, n.n))

\* `arm_id in self.arm_rewards`: a membership test inserts nothing
KeyIn(arms, arm_id) == arm_id \in DOMAIN arms /\ arms[arm_id].present

\* `self.arm_rewards[arm_id]`: the defaultdict after the access, which inserts an
\* entry with count 0 for a missing key
Indexed(arms, arm_id) ==
    IF arm_id \in DOMAIN arms THEN [arms EXCEPT ![arm_id].present = TRUE] ELSE arms

\* the statistics after the loop of lines 128-140 from candidate i on; `guarded`
\* says whether the membership test of line 134 precedes the indexing
RECURSIVE EntriesLoop(_, _, _, _, _)
EntriesLoop(arms, available, explore, i, guarded) ==
    IF i > Len(available) THEN arms
    ELSE IF ~HasKey(available[i], "id") THEN arms
    ELSE IF explore[i] THEN EntriesLoop(arms, available, explore, i + 1, guarded)
    ELSE IF guarded /\ ~KeyIn(arms, available[i].id)
        THEN EntriesLoop(arms, available, explore, i + 1, guarded)
    ELSE EntriesLoop(Indexed(arms, available[i].id), available, explore, i + 1, guarded)

\* faulty variant: the exploit branch indexes the defaultdict without testing
\* membership first
select_arms_entries_Unguarded(arms, n_arms, available_arms, n, explore) ==
    IF ~n.isInt THEN arms
    ELSE EntriesLoop(arms, Take(Take(available_arms, n_arms), n.n), explore, 1, FALSE)

\* ContextualBandit.select_arms: arm_rewards after the call
select_arms_entries(arms, n_arms, available_arms, n, explore) ==
    IF ~n.isInt THEN arms
    ELSE EntriesLoop(arms, Take(Take(available_arms, n_arms), n.n), explore, 1, TRUE)

----------------------------------------------------------------------------
(* ContentBasedFiltering *)

ScoreCuisine == 5       \* 0.5
ScoreVegetarian == 3    \* 0.3

\* faulty variant: the weights of the two matches are exchanged
ContentScore_VegetarianOutweighs(meal, user_profile) ==
    (IF meal.cuisine \in Elems(user_profile.favorite_cuisines.items)
        THEN ScoreVegetarian ELSE 0)
    + (IF /\ Str(s_vegetarian) \in Elems(user_profile.dietary_restrictions)
          /\ meal.is_vegetarian # 0
        THEN ScoreCuisine ELSE 0)

\* the score of lines 25-33
ContentScore(meal, user_profile) ==
    (IF meal.cuisine \in Elems(user_profile.favorite_cuisines.items)
        THEN ScoreCuisine ELSE 0)
    + (IF /\ user_profile.dietary_restrictions # <<>>
          /\ Str(s_vegetarian) \in Elems(user_profile.dietary_restrictions)
          /\ meal.is_vegetarian # 0
        THEN ScoreVegetarian ELSE 0)

\* the separator of line 60: space, U+2022 (bullet), space
Bullet == " (U+2022) "

_generate_explanation(meal, user_profile) ==
    LET explanations ==
            (IF meal.cuisine \in Elems(user_profile.favorite_cuisines.items)
                THEN << <<"Because you love ", meal.cuisine, " cuisine">> >> ELSE <<>>)
            \o (IF /\ meal.is_vegetarian # 0
                   /\ Str(s_vegetarian) \in Elems(user_profile.dietary_restrictions)
                THEN << <<"Vegetarian option">> >> ELSE <<>>)
    IN  IF explanations # <<>> THEN Join(<<Bullet>>, explanations)
        ELSE <<"Matches your taste profile">>

\* faulty variant: items scoring 0 are ranked last instead of being left out
ContentBasedFiltering_get_recommendations_KeepsZeros(meals, user_profile, n) ==
    IF meals # <<>> /\ ~user_profile.favorite_cuisines.isList THEN <<>>
    ELSE
        LET scored == [i \in 1..Len(meals) |->
                With(meals[i],
                     [similarity_score |-> ContentScore(meals[i], user_profile),
                      explanation |-> _generate_explanation(meals[i], user_profile),
                      algorithm |-> "content_based"])]
            sorted == SortDesc(scored,
                [i \in 1..Len(scored) |-> scored[i].similarity_score])
            sliced == Slice(sorted, n)
        IN  IF sliced.exc THEN <<>> ELSE sliced.val

\* ContentBasedFiltering.get_recommendations: the list it returns (it catches
\* what it raises: `cuisine in None`, a slice by a non-int)
ContentBasedFiltering_get_recommendations(meals, user_profile, n) ==
    IF meals # <<>> /\ ~user_profile.favorite_cuisines.isList THEN <<>>
    ELSE
        LET scored == [i \in 1..Len(meals) |->
                With(meals[i],
                     [similarity_score |-> ContentScore(meals[i], user_profile),
                      explanation |-> _generate_explanation(meals[i], user_profile),
                      algorithm |-> "content_based"])]
            recommendations ==
                SelectAt(scored, {i \in 1..Len(meals) : scored[i].similarity_score > 0}, 1)
            sorted == SortDesc(recommendations,
                [i \in 1..Len(recommendations) |-> recommendations[i].similarity_score])
            sliced == Slice(sorted, n)
        IN  IF sliced.exc THEN <<>> ELSE sliced.val

\* faulty variant: the reference item is not dropped from the rows of its cuisine
get_similar_items_KeepsReference(meals, meal_id, n) ==
    IF meal_id \notin {meals[i].id : i \in 1..Len(meals)} THEN Ok(<<>>)
    ELSE IF ~n.isInt THEN Ok(<<>>)
    ELSE
        LET meal == meals[CHOOSE i \in 1..Len(meals) : meals[i].id = meal_id]
            same == SelectAt(meals,
                        {i \in 1..Len(meals) : meals[i].cuisine = meal.cuisine}, 1)
        IN  Ok(Take(same, n.n))

ContentBasedFiltering_get_similar_items(meals, meal_id, n) ==
    IF meal_id \notin {meals[i].id : i \in 1..Len(meals)} THEN Ok(<<>>)
    ELSE IF ~n.isInt THEN Ok(<<>>)      \* n+1 raises, caught at line 78
    ELSE
        LET meal == meals[CHOOSE i \in 1..Len(meals) :
                        /\ meals[i].id = meal_id
                        /\ \A j \in 1..(i - 1) : meals[j].id # meal_id]
            cuisine == meal.cuisine
            same == SelectAt(meals, {i \in 1..Len(meals) : meals[i].cuisine = cuisine}, 1)
            head == Take(same, n.n + 1)
            others == SelectAt(head, {i \in 1..Len(head) : head[i].id # meal_id}, 1)
        IN  Ok(Take(others, n.n))

----------------------------------------------------------------------------
(* CollaborativeFiltering *)

DefaultPredictedRating == 40    \* 4.0

HasColumn(meals, c) == \A i \in 1..Len(meals) : HasKey(meals[i], c)

\* faulty variant: without a rating column the scorer fails and returns nothing
CollaborativeFiltering_get_recommendations_NeedsRatings(meals, n) ==
    IF ~n.isInt \/ ~HasColumn(meals, "rating") THEN <<>>
    ELSE
        LET popular == Take(SortDesc(meals, [i \in 1..Len(meals) |-> meals[i].rating]), n.n)
        IN  [i \in 1..Len(popular) |->
                With(popular[i],
                     [predicted_rating |-> popular[i].rating,
                      explanation |-> <<"Popular among our users">>,
                      algorithm |-> "collaborative"])]

\* CollaborativeFiltering.get_recommendations: the list it returns
CollaborativeFiltering_get_recommendations(meals, n) ==
    IF ~n.isInt THEN <<>>               \* nlargest/head raises, caught at line 108
    ELSE
        LET popular ==
                IF HasColumn(meals, "rating")
                THEN Take(SortDesc(meals, [i \in 1..Len(meals) |-> meals[i].rating]), n.n)
                ELSE Take(meals, n.n)
        IN  [i \in 1..Len(popular) |->
                With(popular[i],
                     [predicted_rating |->
                        IF HasKey(popular[i], "rating") THEN popular[i].rating
                        ELSE DefaultPredictedRating,
                      explanation |-> <<"Popular among our users">>,
                      algorithm |-> "collaborative"])]

----------------------------------------------------------------------------
(* KnowledgeBasedFiltering *)

\* faulty variant: the vegan rule forgets the egg tag
Conflicts_NoEgg(restriction, tags) ==
    \/ restriction = s_vegetarian /\ Contains(tags, s_non_veg)
    \/ restriction = s_vegan /\ Contains(tags, s_dairy)
    \/ restriction = s_gluten_free /\ Contains(tags, s_gluten)

\* lines 172-180, restriction already lower-cased
Conflicts(restriction, tags) ==
    \/ restriction = s_vegetarian /\ Contains(tags, s_non_veg)
    \/ restriction = s_vegan /\ (Contains(tags, s_dairy) \/ Contains(tags, s_egg))
    \/ restriction = s_gluten_free /\ Contains(tags, s_gluten)

\* the loop of lines 170-180 from restriction i on: "valid", "invalid", or
\* "raise" (lower() of a value that is not a str)
RECURSIVE CheckMeal(_, _, _)
CheckMeal(tags, restrictions, i) ==
    IF i > Len(restrictions) THEN "valid"
    ELSE IF ~restrictions[i].isStr THEN "raise"
    ELSE IF Conflicts(Lower(restrictions[i].s), tags) THEN "invalid"
    ELSE CheckMeal(tags, restrictions, i + 1)

MealTags(meal) == IF HasKey(meal, "tags") THEN meal.tags ELSE <<>>

filter_by_dietary_restrictions(meals, restrictions) ==
    IF restrictions = <<>> THEN Ok(meals)
    ELSE
        LET verdict == [i \in 1..Len(meals) |->
                CheckMeal(Lower(MealTags(meals[i])), restrictions, 1)]
        IN  IF \E i \in 1..Len(meals) : verdict[i] = "raise" THEN Raise
            ELSE Ok(SelectAt(meals, {i \in 1..Len(meals) : verdict[i] = "valid"}, 1))

----------------------------------------------------------------------------
(* RecommendationEngine: what each operation can return *)

\* candidates after random.shuffle, cut to limit, each updated with fields
ShuffledPrefix(meals, limit, fields) ==
    IF ~limit.isInt THEN {Raise}
    ELSE {Ok([i \in 1..Len(a) |-> With(meals[a[i]], fields)]) :
            a \in Arrangements(1..Len(meals), Min(limit.n, Len(meals)))}

_get_fallback_recommendations(meals, limit) ==
    TryExcept(
        ShuffledPrefix(_filter_candidates(meals), limit,
                       [explanation |-> <<"Recommended for you">>]),
        {Ok(<<>>)})

\* faulty variant: the popularity scorer's items are appended to the content
\* scorer's (a backfill of the items the content scorer excluded)
get_recommendations_body_Backfills(meals, preferences, limit) ==
    LET content == ContentBasedFiltering_get_recommendations(meals, preferences, limit)
        popular == CollaborativeFiltering_get_recommendations(meals, limit)
        content_recs ==
            content \o SelectAt(popular,
                {i \in 1..Len(popular) :
                    \A j \in 1..Len(content) : content[j].id # popular[i].id}, 1)
        filtered ==
            IF preferences.present
            THEN filter_by_dietary_restrictions(content_recs,
                                                preferences.dietary_restrictions)
            ELSE Ok(content_recs)
    IN  IF filtered.exc THEN Raise ELSE Slice(filtered.val, limit)

\* the try block of get_recommendations
get_recommendations_body(meals, preferences, limit) ==
    LET candidates == _filter_candidates(meals)
        content == ContentBasedFiltering_get_recommendations(meals, preferences, limit)
        content_recs ==
            IF content = <<>> THEN CollaborativeFiltering_get_recommendations(meals, limit)
            ELSE content
        filtered ==
            IF preferences.present
            THEN filter_by_dietary_restrictions(content_recs,
                                                preferences.dietary_restrictions)
            ELSE Ok(content_recs)
    IN  IF candidates = <<>> THEN Ok(<<>>)
        ELSE IF filtered.exc THEN Raise
        ELSE Slice(filtered.val, limit)

\* faulty variant: no except clause around the body
get_recommendations_NoExcept(meals, preferences, limit) ==
    {get_recommendations_body(meals, preferences, limit)}

get_recommendations(meals, preferences, limit) ==
    TryExcept({get_recommendations_body(meals, preferences, limit)},
              _get_fallback_recommendations(meals, limit))

\* faulty variant: each slot is drawn with random.choice, so items can repeat
explore_recommendations_WithRepeats(meals, limit) ==
    IF ~limit.isInt THEN {Ok(<<>>)}
    ELSE {Ok([i \in 1..Len(a) |->
                With(meals[a[i]],
                     [explanation |-> <<"Try something new! We think you might like this">>,
                      algorithm |-> "exploration"])]) :
            a \in [1..Min(limit.n, Len(meals)) -> 1..Len(meals)]}

explore_recommendations(meals, limit) ==
    TryExcept(
        ShuffledPrefix(_filter_candidates(meals), limit,
                       [explanation |-> <<"Try something new! We think you might like this">>,
                        algorithm |-> "exploration"]),
        {Ok(<<>>)})

get_similar_items(meals, meal_id, limit) ==
    TryExcept({ContentBasedFiltering_get_similar_items(meals, meal_id, limit)},
              {Ok(<<>>)})

\* faulty variant: the sort by rating is left out
get_popular_items_body_Unsorted(meals, city, limit) ==
    LET sliced == Slice(_filter_candidates(meals), limit)
    IN  IF sliced.exc THEN Raise
        ELSE Ok([i \in 1..Len(sliced.val) |->
                    With(sliced.val[i], [explanation |-> <<"Popular among our users">>])])

get_popular_items_body(meals, city, limit) ==
    LET candidates == _filter_candidates(meals)
        sorted ==
            IF HasColumn(meals, "rating")
            THEN SortDesc(candidates,
                    [i \in 1..Len(candidates) |->
                        IF HasKey(candidates[i], "rating") THEN candidates[i].rating ELSE 0])
            ELSE candidates
        sliced == Slice(sorted, limit)
    IN  IF sliced.exc THEN Raise
        ELSE Ok([i \in 1..Len(sliced.val) |->
                    With(sliced.val[i], [explanation |-> <<"Popular among our users">>])])

get_popular_items(meals, city, limit) ==
    TryExcept({get_popular_items_body(meals, city, limit)}, {Ok(<<>>)})

get_trending_items(meals, city, days, limit) == get_popular_items(meals, city, limit)

----------------------------------------------------------------------------
(* Calls *)

\* app.run(..., threaded=True): each request is served by a thread of its own, all
\* sharing the one recommendation_engine
Threads == 1..MaxThreads
IdleThread == [pc |-> "idle", meal_id |-> "", liked |-> "None",
               rating |-> [kind |-> "None", n |-> 0], tmp |-> 0]

MealIds == {"M001", "M003", "M101", "M102", "M103", "M104", "M999"}
Cities == {"mumbai", "pune"}
Days == {1, 7}

NoCall == [raised |-> FALSE, value |-> <<>>]

Returned(name, a, outcome) ==
    /\ pc' = "returned"
    /\ op' = name
    /\ args' = a
    /\ ret' = [raised |-> outcome.exc, value |-> outcome.val]

Unchanged_engine ==
    UNCHANGED <<menu_items, store_ok, meals_df, arm_rewards, user_interactions, threads>>

GetRecommendations ==
    /\ pc = "ready"
    /\ \E preferences \in Profiles, limit \in Limits :
        \E o \in get_recommendations(meals_df, preferences, limit) :
            /\ Returned("get_recommendations",
                        [preferences |-> preferences, limit |-> limit], o)
            /\ Unchanged_engine

ExploreRecommendations ==
    /\ pc = "ready"
    /\ \E limit \in Limits :
        \E o \in explore_recommendations(meals_df, limit) :
            /\ Returned("explore_recommendations", [limit |-> limit], o)
            /\ Unchanged_engine

GetSimilarItems ==
    /\ pc = "ready"
    /\ \E meal_id \in MealIds, limit \in Limits :
        \E o \in get_similar_items(meals_df, meal_id, limit) :
            /\ Returned("get_similar_items", [meal_id |-> meal_id, limit |-> limit], o)
            /\ Unchanged_engine

\* faulty variant: the first slot goes to an arm the bandit has seen liked
GetPopularItems_BoostsLiked ==
    /\ pc = "ready"
    /\ \E city \in Cities, limit \in Limits :
        \E o \in get_popular_items(meals_df, city, limit) :
            LET liked == {i \in 1..Len(meals_df) :
                            /\ Observed(arm_rewards, meals_df[i].id)
                            /\ arm_rewards[meals_df[i].id].sum_rewards > 0}
                first == CHOOSE i \in liked : \A j \in liked : i <= j
                boosted ==
                    IF o.exc \/ o.val = <<>> \/ liked = {} THEN o
                    ELSE [o EXCEPT !.val[1] =
                            With(meals_df[first], [explanation |-> o.val[1].explanation])]
            IN  /\ Returned("get_popular_items", [city |-> city, limit |-> limit],
                            boosted)
                /\ Unchanged_engine

GetPopularItems ==
    /\ pc = "ready"
    /\ \E city \in Cities, limit \in Limits :
        \E o \in get_popular_items(meals_df, city, limit) :
            /\ Returned("get_popular_items", [city |-> city, limit |-> limit], o)
            /\ Unchanged_engine

GetTrendingItems ==
    /\ pc = "ready"
    /\ \E city \in Cities, days \in Days, limit \in Limits :
        \E o \in get_trending_items(meals_df, city, days, limit) :
            /\ Returned("get_trending_items",
                        [city |-> city, days |-> days, limit |-> limit], o)
            /\ Unchanged_engine

\* the caller takes the result; the engine is ready for the next request
NextRequest ==
    /\ pc = "returned"
    /\ pc' = "ready"
    /\ op' = "none"
    /\ args' = <<>>
    /\ ret' = NoCall
    /\ Unchanged_engine

Init ==
    /\ store_ok \in BOOLEAN
    /\ menu_items \in (IF store_ok THEN StoreTables ELSE {<<>>})
    /\ meals_df = _load_meals_data(menu_items, store_ok)
    /\ arm_rewards = [a \in ArmIds |-> NoEntry]
    /\ user_interactions = <<>>
    /\ pc = "ready"
    /\ op = "none"
    /\ args = <<>>
    /\ ret = NoCall
    /\ threads = [t \in Threads |-> IdleThread]

----------------------------------------------------------------------------
(* ContextualBandit.update_feedback and RecommendationEngine.record_interaction *)

RatingDivisor == 5                  \* rating / 5.0
RewardUnit == 2 * RatingDivisor     \* reward 1.0, in tenths

\* faulty variant: the reward replaces the cumulative sum instead of being added
update_feedback_Overwrites(arms, arm_id, reward) ==
    [arms EXCEPT ![arm_id] =
        [present |-> TRUE, count |-> @.count + 1, sum_rewards |-> reward]]

\* arm_rewards[arm_id]['count'] += 1; arm_rewards[arm_id]['sum_rewards'] += reward
\* (arm_rewards is a defaultdict: the first access creates the entry)
update_feedback(arms, arm_id, reward) ==
    [arms EXCEPT ![arm_id] =
        [present |-> TRUE, count |-> @.count + 1, sum_rewards |-> @.sum_rewards + reward]]

PyNone == [kind |-> "None", n |-> 0]
PyNum(n) == [kind |-> "int", n |-> n]
PyText == [kind |-> "str", n |-> 0]         \* a JSON string, e.g. "5"

\* what the feedback endpoint passes on from the request's JSON, unvalidated
LikedValues == {"None", "True", "False"}
RatingValues == {PyNone, PyNum(-5), PyNum(4), PyNum(10), PyText}

\* faulty variant: a rating, when given, takes precedence over liked
RewardOf_RatingFirst(liked, rating) ==
    IF rating.kind # "None"
        THEN (IF rating.kind = "int" THEN Ok((rating.n * RewardUnit) \div RatingDivisor)
              ELSE Raise)
    ELSE IF liked # "None" THEN Ok(IF liked = "True" THEN RewardUnit ELSE 0)
    ELSE Ok(RewardUnit \div 2)

\* lines 385-390: the reward in tenths; raises when rating is not a number
RewardOf(liked, rating) ==
    IF liked # "None" THEN Ok(IF liked = "True" THEN RewardUnit ELSE 0)
    ELSE IF rating.kind # "None"
        THEN (IF rating.kind = "int" THEN Ok((rating.n * RewardUnit) \div RatingDivisor)
              ELSE Raise)
    ELSE Ok(RewardUnit \div 2)

\* f"INT{random.randint(1000, 9999)}": some of the 9000 ids the call can draw
EventIds == {"INT1000", "INT9999"}

\* the row _save_interaction inserts
InteractionRow(id, meal_id, liked, rating) ==
    [id |-> id,
     meal_id |-> meal_id,
     action |-> IF liked = "True" THEN "like"
                ELSE IF liked # "None" THEN "dislike" ELSE "view",
     rating |-> rating]

\* _save_interaction: the table afterwards; whatever the insert raises (the store
\* is down, json.dumps(context) fails, the id is already in the table, whose id
\* column is the primary key) is caught at line 424
_save_interaction(table, id, meal_id, liked, rating, context_ok, db_ok) ==
    IF db_ok /\ context_ok /\ (\A i \in 1..Len(table) : table[i].id # id)
    THEN Append(table, InteractionRow(id, meal_id, liked, rating))
    ELSE table

TotalCount(arms) ==
    LET RECURSIVE Sum(_)
        Sum(S) == IF S = {} THEN 0
                  ELSE LET a == CHOOSE x \in S : TRUE IN arms[a].count + Sum(S \ {a})
    IN  Sum(DOMAIN arms)

\* faulty variant: the event is saved before the bandit is updated, and a failed
\* save propagates to the handler of record_interaction
record_interaction_SaveFirst(arms, table, id, meal_id, liked, rating, context_ok, db_ok) ==
    LET reward == RewardOf(liked, rating)
    IN  IF reward.exc \/ ~(db_ok /\ context_ok)
                      \/ (\E i \in 1..Len(table) : table[i].id = id)
        THEN [exc |-> FALSE, arms |-> arms, table |-> table]
        ELSE [exc |-> FALSE,
              arms |-> update_feedback(arms, meal_id, reward.val),
              table |-> Append(table, InteractionRow(id, meal_id, liked, rating))]

\* faulty variant: a dislike discards what the bandit knew about the arm
record_interaction_ForgetsOnDislike(arms, table, id, meal_id, liked, rating, context_ok, db_ok) ==
    LET reward == RewardOf(liked, rating)
    IN  IF reward.exc THEN [exc |-> FALSE, arms |-> arms, table |-> table]
        ELSE [exc |-> FALSE,
              arms |-> IF liked = "False" THEN [arms EXCEPT ![meal_id] = NoEntry]
                       ELSE update_feedback(arms, meal_id, reward.val),
              table |-> _save_interaction(table, id, meal_id, liked, rating,
                                          context_ok, db_ok)]

\* record_interaction: [exc, arms, table] after the call
record_interaction(arms, table, id, meal_id, liked, rating, context_ok, db_ok) ==
    LET reward == RewardOf(liked, rating)
        body ==
            IF reward.exc THEN [exc |-> TRUE, arms |-> arms, table |-> table]
            ELSE [exc |-> FALSE,
                  arms |-> update_feedback(arms, meal_id, reward.val),
                  table |-> _save_interaction(table, id, meal_id, liked, rating,
                                              context_ok, db_ok)]
    IN  \* except Exception: logger.error(...)
        [body EXCEPT !.exc = FALSE]

RecordInteraction ==
    /\ pc = "ready"
    /\ TotalCount(arm_rewards) < MaxUpdates
    /\ \E id \in EventIds, meal_id \in ArmIds, liked \in LikedValues,
          rating \in RatingValues, context_ok \in BOOLEAN, db_ok \in BOOLEAN :
        LET o == record_interaction(arm_rewards, user_interactions, id, meal_id, liked,
                                    rating, context_ok, db_ok)
        IN  /\ arm_rewards' = o.arms
            /\ user_interactions' = o.table
            /\ Returned("record_interaction",
                        [id |-> id, meal_id |-> meal_id, liked |-> liked,
                         rating |-> rating, context_ok |-> context_ok, db_ok |-> db_ok],
                        [exc |-> o.exc, val |-> <<>>])
            /\ UNCHANGED <<menu_items, store_ok, meals_df, threads>>

----------------------------------------------------------------------------
(* record_interaction served by concurrent threads. The engine takes no lock:    *)
(* each `x[k] += v` of update_feedback is a read of x[k] and a later write of    *)
(* x[k], and another thread can run in between.                                  *)

SetThread(t, fields) == [threads EXCEPT ![t] = With(threads[t], fields)]

At(t, label) == threads[t].pc = label

Unchanged_sequential == UNCHANGED <<menu_items, store_ok, meals_df, pc, op, args, ret>>

\* lines 383-390: the call starts and derives the reward; a rating that is not a
\* number raises, and the handler of line 398 ends the call
ThreadRecordInteraction(t) ==
    /\ At(t, "idle")
    /\ \E meal_id \in ArmIds, liked \in LikedValues, rating \in RatingValues :
        threads' = SetThread(t,
            [pc |-> IF RewardOf(liked, rating).exc THEN "done" ELSE "read_count",
             meal_id |-> meal_id, liked |-> liked, rating |-> rating])
    /\ UNCHANGED <<arm_rewards, user_interactions>>
    /\ Unchanged_sequential

\* line 150, first half: arm_rewards[arm_id] (the defaultdict creates the entry)
\* and the read of its 'count'
ReadCount(t) ==
    /\ At(t, "read_count")
    /\ arm_rewards' = [arm_rewards EXCEPT ![threads[t].meal_id].present = TRUE]
    /\ threads' = SetThread(t, [pc |-> "write_count",
                                tmp |-> arm_rewards[threads[t].meal_id].count])
    /\ UNCHANGED user_interactions
    /\ Unchanged_sequential

\* line 150, second half: the store of count + 1
WriteCount(t) ==
    /\ At(t, "write_count")
    /\ arm_rewards' = [arm_rewards EXCEPT ![threads[t].meal_id].count = threads[t].tmp + 1]
    /\ threads' = SetThread(t, [pc |-> "read_sum", tmp |-> 0])
    /\ UNCHANGED user_interactions
    /\ Unchanged_sequential

\* line 151, first half: the read of 'sum_rewards'
ReadSum(t) ==
    /\ At(t, "read_sum")
    /\ arm_rewards' = [arm_rewards EXCEPT ![threads[t].meal_id].present = TRUE]
    /\ threads' = SetThread(t, [pc |-> "write_sum",
                                tmp |-> arm_rewards[threads[t].meal_id].sum_rewards])
    /\ UNCHANGED user_interactions
    /\ Unchanged_sequential

\* line 151, second half: the store of sum_rewards + reward
WriteSum(t) ==
    /\ At(t, "write_sum")
    /\ arm_rewards' = [arm_rewards EXCEPT ![threads[t].meal_id].sum_rewards =
            threads[t].tmp + RewardOf(threads[t].liked, threads[t].rating).val]
    /\ threads' = SetThread(t, [pc |-> "save", tmp |-> 0])
    /\ UNCHANGED user_interactions
    /\ Unchanged_sequential

\* line 396: _save_interaction, then the call returns
ThreadSaveInteraction(t) ==
    /\ At(t, "save")
    /\ \E id \in EventIds, context_ok \in BOOLEAN, db_ok \in BOOLEAN :
        user_interactions' =
            _save_interaction(user_interactions, id, threads[t].meal_id,
                              threads[t].liked, threads[t].rating, context_ok, db_ok)
    /\ threads' = SetThread(t, [pc |-> "done"])
    /\ UNCHANGED arm_rewards
    /\ Unchanged_sequential

----------------------------------------------------------------------------
(* KnowledgeBasedFiltering.filter_by_dietary_restrictions called on its own *)

RestrictionValues ==
    {Str(s_vegetarian), Str(s_Vegetarian), Str(s_VEGAN), Str(s_gluten_free),
     Str(s_keto), NotStr}

RECURSIVE ListsUpTo(_, _)
ListsUpTo(S, n) ==
    IF n = 0 THEN {<<>>}
    ELSE ListsUpTo(S, n - 1) \cup
         {<<x>> \o l : x \in S, l \in {m \in ListsUpTo(S, n - 1) : Len(m) = n - 1}}

\* the meals a candidate list is made of
CandidatePool == StoreRows \cup {_create_sample_meals[1]}

FilterCall ==
    /\ pc = "ready"
    /\ \E k \in 0..MaxRows :
        \E meals \in Arrangements(CandidatePool, k),
           restrictions \in ListsUpTo(RestrictionValues, MaxRestrictions) :
            /\ Returned("filter_by_dietary_restrictions",
                        [meals |-> meals, restrictions |-> restrictions],
                        filter_by_dietary_restrictions(meals, restrictions))
            /\ Unchanged_engine

ReadNext ==
    \/ GetRecommendations
    \/ ExploreRecommendations
    \/ GetSimilarItems
    \/ GetPopularItems
    \/ GetTrendingItems
    \/ NextRequest

SpecRead == Init /\ [][ReadNext]_vars

FeedbackNext ==
    \/ RecordInteraction
    \/ NextRequest

\* the engine built while the store is down: it serves the sample catalog. Neither
\* the dietary filter called alone nor the feedback path reads the catalog.
InitSample == Init /\ ~store_ok

SpecFeedback == InitSample /\ [][FeedbackNext]_vars

FilterNext ==
    \/ FilterCall
    \/ NextRequest

SpecFilter == InitSample /\ [][FilterNext]_vars

\* CollaborativeFiltering.get_recommendations called on its own, on a frame with
\* or without a rating column
WithoutColumn(meals, c) ==
    [i \in 1..Len(meals) |-> [k \in DOMAIN meals[i] \ {c} |-> meals[i][k]]]

PopularityCall ==
    /\ pc = "ready"
    /\ \E k \in 0..MaxRows, rated \in BOOLEAN, n \in Limits :
        \E rows \in Arrangements(CandidatePool, k) :
            LET meals == IF rated THEN rows ELSE WithoutColumn(rows, "rating")
            IN  /\ Returned("CollaborativeFiltering.get_recommendations",
                            [meals_df |-> meals, n |-> n],
                            Ok(CollaborativeFiltering_get_recommendations(meals, n)))
                /\ Unchanged_engine

PopularityNext ==
    \/ PopularityCall
    \/ NextRequest

SpecPopularity == InitSample /\ [][PopularityNext]_vars

\* ContextualBandit.select_arms called on the engine's bandit
Reverse(s) == [i \in 1..Len(s) |-> s[Len(s) + 1 - i]]

CandidateLists(meals) ==
    {_filter_candidates(meals), Reverse(_filter_candidates(meals)),
     Take(_filter_candidates(meals), 3), <<>>, <<[name |-> "Thali"]>>}

SelectLimits == Limits \cup {PyInt(DefaultSelect)}

SelectArms ==
    /\ pc = "ready"
    /\ \E available_arms \in CandidateLists(meals_df), n \in SelectLimits :
        \E explore \in [1..Min(n.n, Len(available_arms)) -> BOOLEAN] :
            /\ Returned("select_arms",
                        [available_arms |-> available_arms, n |-> n, explore |-> explore],
                        select_arms(arm_rewards, Min(Len(meals_df), MaxArms),
                                    available_arms, n, explore))
            /\ arm_rewards' = select_arms_entries(arm_rewards,
                                                  Min(Len(meals_df), MaxArms),
                                                  available_arms, n, explore)
            /\ UNCHANGED <<menu_items, store_ok, meals_df, user_interactions, threads>>

\* the engine on the sample catalog after likes for some of its items
ObservableIds == {"M001", "M006", "M007", "M008", "M009", "M0010"}

InitObserved ==
    /\ store_ok = FALSE
    /\ menu_items = <<>>
    /\ meals_df = _load_meals_data(menu_items, store_ok)
    /\ \E liked \in SUBSET ObservableIds :
        arm_rewards = [a \in ObservableIds |->
            IF a \in liked
            THEN update_feedback([x \in ObservableIds |-> NoEntry], a, RewardUnit)[a]
            ELSE NoEntry]
    /\ user_interactions = <<>>
    /\ pc = "ready"
    /\ op = "none"
    /\ args = <<>>
    /\ ret = NoCall
    /\ threads = [t \in Threads |-> IdleThread]

SelectNext ==
    \/ SelectArms
    \/ NextRequest

SpecSelect == InitObserved /\ [][SelectNext]_vars

\* the engine built on a store holding the two items of the spec's concrete
\* scenario, with any stored ratings (menu_items.rating is REAL DEFAULT 0)
ScenarioRatings == {0, 45, 49}

ScenarioTables ==
    {<< [id |-> "M1", cuisine |-> "North Indian", rating |-> r1, is_vegetarian |-> 1,
         tags |-> t_veg_popular, is_available |-> 1],
        [id |-> "M2", cuisine |-> "South Indian", rating |-> r2, is_vegetarian |-> 1,
         tags |-> t_veg_breakfast, is_available |-> 1] >> :
        r1 \in ScenarioRatings, r2 \in ScenarioRatings}

InitScenario ==
    /\ store_ok = TRUE
    /\ menu_items \in ScenarioTables
    /\ meals_df = _load_meals_data(menu_items, store_ok)
    /\ arm_rewards = [a \in ArmIds |-> NoEntry]
    /\ user_interactions = <<>>
    /\ pc = "ready"
    /\ op = "none"
    /\ args = <<>>
    /\ ret = NoCall
    /\ threads = [t \in Threads |-> IdleThread]

SpecScenario == InitScenario /\ [][ReadNext]_vars

ConcurrentNext ==
    \E t \in Threads :
        \/ ThreadRecordInteraction(t)
        \/ ReadCount(t)
        \/ WriteCount(t)
        \/ ReadSum(t)
        \/ WriteSum(t)
        \/ ThreadSaveInteraction(t)

SpecConcurrent == InitSample /\ [][ConcurrentNext]_vars

\* record_interaction as the feedback endpoint calls it for a like, a dislike or a
\* view without rating, the store being up or down as it was at construction
RecordFeedback ==
    /\ pc = "ready"
    /\ TotalCount(arm_rewards) < MaxUpdates
    /\ \E id \in EventIds, meal_id \in ArmIds, liked \in LikedValues :
        LET o == record_interaction(arm_rewards, user_interactions, id, meal_id, liked,
                                    PyNone, TRUE, store_ok)
        IN  /\ arm_rewards' = o.arms
            /\ user_interactions' = o.table
            /\ Returned("record_interaction",
                        [id |-> id, meal_id |-> meal_id, liked |-> liked,
                         rating |-> PyNone, context_ok |-> TRUE, db_ok |-> store_ok],
                        [exc |-> o.exc, val |-> <<>>])
            /\ UNCHANGED <<menu_items, store_ok, meals_df, threads>>

\* rows of the store's user_ratings table (rating INTEGER NOT NULL)
UserRatingRows ==
    {[user_id |-> "U1", meal_id |-> "M101", rating |-> 5],
     [user_id |-> "U2", meal_id |-> "M101", rating |-> 2],
     [user_id |-> "U1", meal_id |-> "M103", rating |-> 4]}

UserRatingTables == UNION {Arrangements(UserRatingRows, k) : k \in 0..MaxRows}

RatingColumns == {"user_id", "meal_id", "rating"}

\* _load_ratings_data: the frame the constructor keeps as ratings_df; whatever
\* the read raises is caught at line 263
_load_ratings_data(table, ok) ==
    LET read == IF ok THEN Ok(table) ELSE Raise
    IN  IF ~read.exc /\ Len(read.val) > 0
        THEN Ok([columns |-> RatingColumns, rows |-> read.val])
        ELSE Ok([columns |-> RatingColumns, rows |-> <<>>])

\* the constructor's second load, after meals_df is set
LoadRatings ==
    /\ pc = "ready"
    /\ \E table \in UserRatingTables, ok \in BOOLEAN :
        /\ Returned("_load_ratings_data", [table |-> table, ok |-> ok],
                    _load_ratings_data(table, ok))
        /\ Unchanged_engine

LoadNext ==
    \/ LoadRatings
    \/ NextRequest

\* construction against every store: meals_df as Init leaves it, then ratings_df
SpecLoad == Init /\ [][LoadNext]_vars

\* the collaborating store changes an item's availability while the engine runs
\* (menu_items.is_available; the engine itself never writes the table)
SetAvailability ==
    /\ pc = "ready"
    /\ \E i \in 1..Len(menu_items), v \in {0, 1} :
        /\ menu_items[i].is_available # v
        /\ menu_items' = [menu_items EXCEPT ![i].is_available = v]
    /\ UNCHANGED <<store_ok, meals_df, arm_rewards, user_interactions, threads,
                   pc, op, args, ret>>

\* the engine serving reads while the store changes: meals_df is assigned in
\* __init__ only, and no operation loads the catalog again
StoreNext ==
    \/ SetAvailability
    \/ ReadNext

\* requests keep arriving and each is served to completion
SpecStore == InitScenario /\ [][StoreNext]_vars /\ WF_vars(ReadNext)

\* app.py generate_explanation, which the personalized endpoint applies to every
\* recommendation the engine returned: the set of possible outcomes (the order
\* in which a Python set yields its elements is not fixed)
generate_explanation(meal, preferences) ==
    IF ~preferences.favorite_cuisines.isList THEN {Raise}   \* `x in None`
    ELSE
        LET cuisine ==
                IF meal.cuisine \in Elems(preferences.favorite_cuisines.items)
                THEN << <<"Because you love ", meal.cuisine, " cuisine">> >> ELSE <<>>
            matches == Elems(preferences.preferred_ingredients)
                            \cap Elems(meal.ingredients)
            \* ', '.join(list(matches)[:2])
            shown == Arrangements(matches, Min(2, Cardinality(matches)))
            dietary ==
                IF /\ preferences.dietary_restrictions # <<>>
                   /\ meal.is_vegetarian # 0
                   /\ Str(s_vegetarian) \in Elems(preferences.dietary_restrictions)
                THEN << <<"Vegetarian option">> >> ELSE <<>>
            popular ==
                IF meal.is_popular # 0 THEN << <<"Popular in your area">> >> ELSE <<>>
            history ==
                IF meal.reorder_frequency > 3
                THEN << <<"You've ordered this before">> >> ELSE <<>>
        IN  {LET ingredient ==
                    IF matches # {}
                    THEN << <<"Contains your favorite: ">> \o Join(<<", ">>, [i \in 1..Len(names) |-> <<names[i]>>]) >>
                    ELSE <<>>
                 explanations == cuisine \o ingredient \o dietary \o popular \o history
             IN  Ok(IF explanations # <<>> THEN Join(<<Bullet>>, explanations)
                    ELSE <<"Recommended for you">>)
             : names \in shown}

\* recommendations as the engine returns them (rows of menu_items, with the
\* columns generate_explanation reads) and saved preference profiles
ExplainedMeals ==
    {[id |-> "M101", cuisine |-> c, is_vegetarian |-> v, is_popular |-> p,
      reorder_frequency |-> f, ingredients |-> g] :
        c \in {"North Indian", "South Indian"}, v \in {0, 1}, p \in {0, 1},
        f \in {0, 4}, g \in {<<>>, <<"paneer">>, <<"rice", "paneer", "dal">>}}

ExplainProfiles ==
    {[favorite_cuisines |-> f, dietary_restrictions |-> r, preferred_ingredients |-> g] :
        f \in FavoriteLists,
        r \in {<<>>, <<Str(s_vegetarian)>>, <<Str(s_keto)>>},
        g \in {<<>>, <<"paneer">>, <<"dal", "paneer", "rice">>}}

ExplainCall ==
    /\ pc = "ready"
    /\ \E meal \in ExplainedMeals, preferences \in ExplainProfiles :
        \E o \in generate_explanation(meal, preferences) :
            /\ Returned("generate_explanation",
                        [meal |-> meal, preferences |-> preferences], o)
            /\ Unchanged_engine

ExplainNext ==
    \/ ExplainCall
    \/ NextRequest

SpecExplain == InitSample /\ [][ExplainNext]_vars

\* the engine in sequential use: reads, bandit selections and feedback in any order
EngineNext ==
    \/ ReadNext
    \/ RecordFeedback
    \/ SelectArms

\* the engine built on a store that is up and holds every item of StoreRows
StockedIds == <<"M101", "M102", "M103", "M104">>

StockedTable ==
    [i \in 1..Len(StockedIds) |-> CHOOSE r \in StoreRows : r.id = StockedIds[i]]

InitStocked ==
    /\ store_ok = TRUE
    /\ menu_items = StockedTable
    /\ meals_df = _load_meals_data(menu_items, store_ok)
    /\ arm_rewards = [a \in ArmIds |-> NoEntry]
    /\ user_interactions = <<>>
    /\ pc = "ready"
    /\ op = "none"
    /\ args = <<>>
    /\ ret = NoCall
    /\ threads = [t \in Threads |-> IdleThread]

SpecEngine == InitStocked /\ [][EngineNext]_vars

Next ==
    \/ ReadNext
    \/ RecordInteraction
    \/ FilterCall
    \/ ConcurrentNext
    \/ SelectArms
    \/ PopularityCall
    \/ RecordFeedback
    \/ LoadRatings
    \/ SetAvailability
    \/ ExplainCall

Spec == Init /\ [][Next]_vars

----------------------------------------------------------------------------
(* Vocabulary of the properties *)

Called(name) == pc = "returned" /\ op = name

\* the row an item was made from: the item without the keys the engine adds
AddedKeys == {"explanation", "algorithm", "similarity_score", "predicted_rating"}
RowOf(item) == [k \in DOMAIN item \ AddedKeys |-> item[k]]
IsRowOf(item, meals) == \E j \in 1..Len(meals) : meals[j] = RowOf(item)

HasExplanation(item) ==
    /\ HasKey(item, "explanation")
    /\ item.explanation # <<>>
    /\ \A i \in 1..Len(item.explanation) : item.explanation[i] # ""

\* the tags of a comma-separated tag string
RECURSIVE TagsOf(_, _)
TagsOf(s, current) ==
    IF s = <<>> THEN {current}
    ELSE IF Head(s) = "," THEN {current} \cup TagsOf(Tail(s), <<>>)
    ELSE TagsOf(Tail(s), Append(current, Head(s)))

\* a tag conflicts with a restriction: vegetarian with non-veg, vegan with dairy
\* or egg, gluten-free with gluten (both compared in lower case)
TagConflict(restriction, tag) ==
    \/ restriction = s_vegetarian /\ tag = s_non_veg
    \/ restriction = s_vegan /\ tag \in {s_dairy, s_egg}
    \/ restriction = s_gluten_free /\ tag = s_gluten

ItemConflicts(item, restrictions) ==
    \E i \in 1..Len(restrictions) :
        /\ restrictions[i].isStr
        /\ \E tag \in TagsOf(Lower(MealTags(item)), <<>>) :
                TagConflict(Lower(restrictions[i].s), tag)

\* the calls of the threads in S that reached the bandit: how many, and the sum
\* of their rewards
RECURSIVE UpdatesOf(_, _)
UpdatesOf(S, arm) ==
    IF S = {} THEN [count |-> 0, sum_rewards |-> 0]
    ELSE LET t == CHOOSE x \in S : TRUE
             rest == UpdatesOf(S \ {t}, arm)
             reward == RewardOf(threads[t].liked, threads[t].rating)
         IN  IF threads[t].pc # "idle" /\ threads[t].meal_id = arm /\ ~reward.exc
             THEN [count |-> rest.count + 1,
                   sum_rewards |-> rest.sum_rewards + reward.val]
             ELSE rest

\* the candidates a call of get_recommendations scores, before any truncation: the
\* content scorer's when it has any, else the popularity scorer's
ScoredCandidates(meals, preferences) ==
    LET content == ContentBasedFiltering_get_recommendations(meals, preferences,
                                                             PyInt(Len(meals)))
    IN  IF content # <<>> THEN content
        ELSE CollaborativeFiltering_get_recommendations(meals, PyInt(Len(meals)))

\* the sub-list of items that conflict with no restriction
Passing(items, restrictions) ==
    SelectAt(items, {i \in 1..Len(items) : ~ItemConflicts(items[i], restrictions)}, 1)

\* the profile of the spec's concrete scenario: favourite cuisines only
ScenarioProfile ==
    [present |-> TRUE, favorite_cuisines |-> List(<<"North Indian">>),
     dietary_restrictions |-> <<>>]

ScenarioCall ==
    /\ Called("get_recommendations")
    /\ args.preferences = ScenarioProfile
    /\ args.limit = PyInt(2)

\* the sum of f[x] over the x in S
RECURSIVE SumOver(_, _)
SumOver(S, f) ==
    IF S = {} THEN 0
    ELSE LET x == CHOOSE y \in S : TRUE IN f[x] + SumOver(S \ {x}, f)

\* the chances in 10^k of the outcomes `explore` of k draws
RECURSIVE Chances(_, _)
Chances(explore, i) ==
    IF i > Len(explore) THEN 1
    ELSE (IF explore[i] THEN ExploreWeight ELSE 10 - ExploreWeight)
         * Chances(explore, i + 1)

UnseenIn(items, arms) ==
    Cardinality({i \in 1..Len(items) : ~Observed(arms, items[i].id)})

\* over all outcomes of the draws of one select_arms call, weighted by their
\* chances: the expected number of selected arms and of selected UNSEEN arms
Expected(arms, n_arms, available_arms, n) ==
    LET Draws == [1..Min(n.n, Len(available_arms)) -> BOOLEAN]
        sel(d) == select_arms(arms, n_arms, available_arms, n, d).val
    IN  [selected |-> SumOver(Draws, [d \in Draws |-> Chances(d, 1) * Len(sel(d))]),
         unseen |-> SumOver(Draws, [d \in Draws |-> Chances(d, 1) * UnseenIn(sel(d), arms)])]

\* the profile declares the 'vegetarian' restriction
DeclaresVegetarian(preferences) ==
    \E k \in 1..Len(preferences.dietary_restrictions) :
        preferences.dietary_restrictions[k] = Str(s_vegetarian)

CuisineMatch(meal, preferences) ==
    \E k \in 1..Len(preferences.favorite_cuisines.items) :
        preferences.favorite_cuisines.items[k] = meal.cuisine

VegetarianMatch(meal, preferences) ==
    DeclaresVegetarian(preferences) /\ meal.is_vegetarian = 1

\* the position in the catalog of the row an item was made from
PositionOf(item, meals) == CHOOSE j \in 1..Len(meals) : meals[j].id = item.id

\* item a is ranked before item b: higher score, or equal score and earlier in
\* the catalog
RankedBefore(a, b, meals) ==
    \/ a.similarity_score > b.similarity_score
    \/ /\ a.similarity_score = b.similarity_score
       /\ PositionOf(a, meals) < PositionOf(b, meals)

SampleIds == {_create_sample_meals[i].id : i \in 1..Len(_create_sample_meals)}

----------------------------------------------------------------------------
(* Properties *)

\* C1: get_recommendations returns at most `limit` items (limit an int >= 0), and
\* every returned item carries a non-empty explanation and an algorithm tag,
\* whichever path produced the list.
C1_LimitExplanationAlgorithm ==
    (Called("get_recommendations") /\ args.limit.isInt) =>
        /\ Len(ret.value) <= args.limit.n
        /\ \A i \in 1..Len(ret.value) :
            /\ HasExplanation(ret.value[i])
            /\ HasKey(ret.value[i], "algorithm")

\* C2: whenever get_recommendations is given dietary restrictions, no returned item
\* has a tag that conflicts with one of them, on every path.
C2_DietaryFilterOnEveryPath ==
    (Called("get_recommendations") /\ args.preferences.present) =>
        \A i \in 1..Len(ret.value) :
            ~ItemConflicts(ret.value[i], args.preferences.dietary_restrictions)

\* C3: no item in the output of filter_by_dietary_restrictions has a tag that
\* conflicts with an applied restriction, and every input item with such a tag
\* is removed; the output holds input items only.
C3_FilterCorrectness ==
    (Called("filter_by_dietary_restrictions") /\ ~ret.raised) =>
        /\ \A i \in 1..Len(ret.value) :
            /\ ~ItemConflicts(ret.value[i], args.restrictions)
            /\ ret.value[i] \in Elems(args.meals)
        /\ \A j \in 1..Len(args.meals) :
            ItemConflicts(args.meals[j], args.restrictions)
                => args.meals[j] \notin Elems(ret.value)

\* the filter returned a list from which one restriction of several removed an item
\* and which kept another
C3_Witness ==
    /\ Called("filter_by_dietary_restrictions")
    /\ ~ret.raised
    /\ Len(args.restrictions) >= 2
    /\ Len(ret.value) >= 1
    /\ \E j \in 1..Len(args.meals) :
        /\ ItemConflicts(args.meals[j], <<args.restrictions[2]>>)
        /\ ~ItemConflicts(args.meals[j], <<args.restrictions[1]>>)

\* C4: every item returned by any of the five public operations carries a
\* non-empty explanation.
C4_ExplanationOnEveryOperation ==
    (pc = "returned" /\ op \in {"get_recommendations", "explore_recommendations",
                                "get_similar_items", "get_popular_items",
                                "get_trending_items"}) =>
        \A i \in 1..Len(ret.value) : HasExplanation(ret.value[i])

\* C5: get_recommendations never raises, for any input; when the store raised or
\* held no available row at load time, what it returns is made of rows of the
\* built-in sample catalog.
C5_NeverRaises ==
    Called("get_recommendations") =>
        /\ ~ret.raised
        /\ (~store_ok \/ SelectAvailable(menu_items) = <<>>) =>
            /\ meals_df = _create_sample_meals
            /\ \A i \in 1..Len(ret.value) : IsRowOf(ret.value[i], _create_sample_meals)

\* the store was down, an internal step of get_recommendations raised, and the
\* call returned items
C5_Witness ==
    /\ Called("get_recommendations")
    /\ ~store_ok
    /\ get_recommendations_body(meals_df, args.preferences, args.limit).exc
    /\ Len(ret.value) >= 1

\* C6: get_similar_items returns at most `limit` items, each a catalog row of the
\* reference item's cuisine, none of them the reference item; it returns the empty
\* list, and does not raise, when meal_id is not in the catalog.
C6_SimilarItems ==
    (Called("get_similar_items") /\ args.limit.isInt) =>
        /\ ~ret.raised
        /\ Len(ret.value) <= args.limit.n
        /\ \A i \in 1..Len(ret.value) :
            /\ ret.value[i].id # args.meal_id
            /\ ret.value[i] \in Elems(meals_df)
            /\ \E j \in 1..Len(meals_df) :
                /\ meals_df[j].id = args.meal_id
                /\ meals_df[j].cuisine = ret.value[i].cuisine
        /\ (\A j \in 1..Len(meals_df) : meals_df[j].id # args.meal_id)
                => ret.value = <<>>

\* the reference item is among the first limit+1 rows of its cuisine, and the
\* call returned `limit` others
C6_Witness ==
    /\ Called("get_similar_items")
    /\ args.limit.isInt
    /\ args.limit.n >= 1
    /\ Len(ret.value) = args.limit.n
    /\ \E j \in 1..Len(meals_df) :
        /\ meals_df[j].id = args.meal_id
        /\ \A k \in 1..(j - 1) : meals_df[k].cuisine # meals_df[j].cuisine
        /\ Cardinality({k \in 1..Len(meals_df) :
                            meals_df[k].cuisine = meals_df[j].cuisine}) > args.limit.n + 1

\* C7: explore_recommendations returns at most `limit` items, all distinct rows of
\* the catalog snapshot, each tagged algorithm = 'exploration' with the fixed
\* discovery explanation; on an internal error it returns the empty list and
\* does not raise.
C7_Explore ==
    Called("explore_recommendations") =>
        /\ ~ret.raised
        /\ ~args.limit.isInt => ret.value = <<>>
        /\ args.limit.isInt => Len(ret.value) <= args.limit.n
        /\ \A i \in 1..Len(ret.value) :
            /\ IsRowOf(ret.value[i], meals_df)
            /\ HasKey(ret.value[i], "algorithm")
            /\ ret.value[i].algorithm = "exploration"
            /\ HasKey(ret.value[i], "explanation")
            /\ ret.value[i].explanation
                    = <<"Try something new! We think you might like this">>
            /\ \A j \in 1..Len(ret.value) : i # j => ret.value[i].id # ret.value[j].id

\* exploration returned two items out of a larger catalog, not in catalog order
C7_Witness ==
    /\ Called("explore_recommendations")
    /\ Len(ret.value) = 2
    /\ Len(meals_df) > 2
    /\ \E i, j \in 1..Len(meals_df) :
        /\ i > j
        /\ meals_df[i].id = ret.value[1].id
        /\ meals_df[j].id = ret.value[2].id

C9_RecordInteractionNeverRaises ==
    [][(pc = "ready" /\ op' = "record_interaction") =>
        /\ ~ret'.raised
        /\ (~(args'.db_ok /\ args'.context_ok)
            /\ ~RewardOf(args'.liked, args'.rating).exc) =>
                /\ user_interactions' = user_interactions
                /\ arm_rewards'[args'.meal_id].count
                        = arm_rewards[args'.meal_id].count + 1
                /\ arm_rewards'[args'.meal_id].sum_rewards
                        = arm_rewards[args'.meal_id].sum_rewards
                          + RewardOf(args'.liked, args'.rating).val]_vars

\* a call whose event could not be persisted left the arm updated
C9_Witness ==
    /\ Called("record_interaction")
    /\ ~args.db_ok
    /\ ~RewardOf(args.liked, args.rating).exc
    /\ arm_rewards[args.meal_id].count >= 1
    /\ Len(user_interactions) < TotalCount(arm_rewards)

\* C10: every reward handed to the bandit lies in [0,1], so every arm satisfies
\* 0 <= sum_rewards <= count, whatever rating the caller submits.
C10_RewardInUnitInterval ==
    \A a \in DOMAIN arm_rewards :
        /\ 0 <= arm_rewards[a].sum_rewards
        /\ arm_rewards[a].sum_rewards <= RewardUnit * arm_rewards[a].count

\* C11: a feedback call that reaches the bandit increments the arm's count by
\* exactly 1 and adds exactly the reward to its sum_rewards, and leaves every
\* other arm as it was; a call whose reward cannot be computed leaves all arms as
\* they were. Consequently (P3) an arm that is unobserved or has mean 1.0 has mean
\* 1.0 after one more update with reward 1.0, so N >= 1 such updates and no other
\* give sum_rewards / count = 1.0.
C11_UpdateFeedback ==
    [][(pc = "ready" /\ op' = "record_interaction") =>
        LET reward == RewardOf(args'.liked, args'.rating)
            arm == args'.meal_id
        IN  IF reward.exc THEN arm_rewards' = arm_rewards
            ELSE /\ arm_rewards'[arm].count = arm_rewards[arm].count + 1
                 /\ arm_rewards'[arm].sum_rewards
                        = arm_rewards[arm].sum_rewards + reward.val
                 /\ \A a \in DOMAIN arm_rewards \ {arm} :
                        arm_rewards'[a] = arm_rewards[a]
                 /\ DOMAIN arm_rewards' = DOMAIN arm_rewards
                 /\ (/\ reward.val = RewardUnit
                     /\ arm_rewards[arm].sum_rewards
                            = RewardUnit * arm_rewards[arm].count) =>
                        /\ arm_rewards'[arm].count >= 1
                        /\ arm_rewards'[arm].sum_rewards
                                = RewardUnit * arm_rewards'[arm].count]_vars

\* an arm updated MaxUpdates times with reward 1.0 (the last by a like) has mean
\* 1.0, next to an arm that was never updated
C11_Witness ==
    /\ Called("record_interaction")
    /\ args.liked = "True"
    /\ arm_rewards[args.meal_id].count = MaxUpdates
    /\ arm_rewards[args.meal_id].sum_rewards = RewardUnit * MaxUpdates
    /\ \E a \in DOMAIN arm_rewards : ~arm_rewards[a].present

\* C12: when the concurrent record_interaction calls have all completed, every
\* arm's count has grown by exactly the number of calls made for it and its
\* sum_rewards by exactly the sum of their rewards, in every interleaving.
C12_NoLostUpdates ==
    (\A t \in Threads : threads[t].pc = "done") =>
        \A a \in ArmIds :
            /\ arm_rewards[a].count = UpdatesOf(Threads, a).count
            /\ arm_rewards[a].sum_rewards = UpdatesOf(Threads, a).sum_rewards

\* C13: whenever the content-based scorer yields at least one item for a call of
\* get_recommendations, every item of the result carries algorithm =
\* 'content_based' (and so none carries 'collaborative').
C13_CollaborativeOnlyWhenContentEmpty ==
    (/\ Called("get_recommendations")
     /\ ContentBasedFiltering_get_recommendations(meals_df, args.preferences,
                                                  args.limit) # <<>>) =>
        \A i \in 1..Len(ret.value) :
            /\ HasKey(ret.value[i], "algorithm")
            /\ ret.value[i].algorithm = "content_based"

\* C15: the dietary filter runs after scoring and before truncation: a call of
\* get_recommendations whose steps do not raise returns exactly min(limit, m)
\* items, m the number of scored candidates that pass the dietary filter.
C15_FilterBeforeTruncation ==
    (/\ Called("get_recommendations")
     /\ args.limit.isInt
     /\ ~get_recommendations_body(meals_df, args.preferences, args.limit).exc) =>
        Len(ret.value) =
            Min(args.limit.n,
                Len(Passing(ScoredCandidates(meals_df, args.preferences),
                            args.preferences.dietary_restrictions)))

\* C16: for limit >= 1, if at least one catalog item passes the caller's dietary
\* restrictions, get_recommendations returns a non-empty list.
C16_EmptyOnlyOnExhaustion ==
    (/\ Called("get_recommendations")
     /\ args.limit.isInt
     /\ args.limit.n >= 1
     /\ Passing(meals_df, args.preferences.dietary_restrictions) # <<>>) =>
        ret.value # <<>>

\* C14 as stated: in the concrete scenario get_recommendations(limit=2) returns
\* [M1, M2], M1 from the content scorer (score 0.5, 'Because you love North Indian
\* cuisine') and M2 backfilled from the popularity scorer ('Popular among our
\* users').
C14_ScenarioBackfill ==
    ScenarioCall =>
        /\ Len(ret.value) = 2
        /\ ret.value[1].id = "M1"
        /\ ret.value[1].similarity_score = ScoreCuisine
        /\ ret.value[1].explanation = <<"Because you love ", "North Indian", " cuisine">>
        /\ ret.value[2].id = "M2"
        /\ ret.value[2].explanation = <<"Popular among our users">>

\* C14, amended: in the concrete scenario get_recommendations(limit=2) returns [M1]
\* alone: M1 comes from the content scorer with score 0.5 and explanation 'Because
\* you love North Indian cuisine'; M2 scores 0, is excluded by the content scorer
\* and is not backfilled, because the popularity scorer runs only when the content
\* scorer returns nothing.
C14_ScenarioNoBackfill ==
    ScenarioCall =>
        /\ ~ret.raised
        /\ Len(ret.value) = 1
        /\ ret.value[1].id = "M1"
        /\ ret.value[1].similarity_score = ScoreCuisine
        /\ ret.value[1].explanation = <<"Because you love ", "North Indian", " cuisine">>
        /\ ret.value[1].algorithm = "content_based"
        /\ ContentScore(meals_df[2], args.preferences) = 0

\* the scenario's call returned, on the scenario's catalog with M2 rated above M1
C14_Witness ==
    /\ ScenarioCall
    /\ Len(meals_df) = 2
    /\ meals_df[1].id = "M1"
    /\ meals_df[2].id = "M2"
    /\ meals_df[2].rating > meals_df[1].rating
    /\ ret.value # <<>>

\* C17: P4 - for select_arms with at least 10 candidates and limit 5, the long-run
\* fraction of selected arms that are UNSEEN (expected UNSEEN selections over
\* expected selections of one call) is the explore probability 0.3, within a
\* tolerance of 0.05.
C17_ExplorationFloor ==
    (/\ Called("select_arms")
     /\ Len(args.available_arms) >= 10
     /\ args.n = PyInt(DefaultSelect)) =>
        LET e == Expected(arm_rewards, Min(Len(meals_df), MaxArms),
                          args.available_arms, args.n)
        IN  /\ e.selected > 0
            /\ 100 * e.unseen >= (10 * ExploreWeight - 5) * e.selected
            /\ 100 * e.unseen <= (10 * ExploreWeight + 5) * e.selected

\* C18: P2 - the content score of an item is 0.5 if its cuisine is a favourite
\* plus 0.3 if the profile declares 'vegetarian' and the item is vegetarian; it
\* lies in [0,1]; of two items alike in the vegetarian match the one whose cuisine
\* matches scores strictly higher; a cuisine match alone outweighs a vegetarian
\* match alone; and every item the content scorer returns carries this score.
C18_ContentScore ==
    (Called("get_recommendations") /\ args.preferences.favorite_cuisines.isList) =>
        LET p == args.preferences
            score(m) == ContentScore(m, p)
            out == ContentBasedFiltering_get_recommendations(meals_df, p, args.limit)
        IN  /\ \A i \in 1..Len(meals_df) :
                LET m == meals_df[i]
                IN  /\ score(m) = (IF CuisineMatch(m, p) THEN 5 ELSE 0)
                                   + (IF VegetarianMatch(m, p) THEN 3 ELSE 0)
                    /\ 0 <= score(m)
                    /\ score(m) <= 10
            /\ \A i, j \in 1..Len(meals_df) :
                LET a == meals_df[i]
                    b == meals_df[j]
                IN  /\ (/\ CuisineMatch(a, p)
                        /\ ~CuisineMatch(b, p)
                        /\ VegetarianMatch(a, p) = VegetarianMatch(b, p))
                            => score(a) > score(b)
                    /\ (/\ CuisineMatch(a, p) /\ ~VegetarianMatch(a, p)
                        /\ ~CuisineMatch(b, p) /\ VegetarianMatch(b, p))
                            => score(a) > score(b)
            /\ \A k \in 1..Len(out) :
                out[k].similarity_score = score(RowOf(out[k]))
            /\ (~ret.raised /\ \A k \in 1..Len(ret.value) :
                        HasKey(ret.value[k], "similarity_score")) =>
                    \A k \in 1..Len(ret.value) :
                        ret.value[k].similarity_score = score(RowOf(ret.value[k]))

\* a call returned an item with both matches (0.8) from a catalog that also holds
\* an item with the cuisine match alone and one with the vegetarian match alone
C18_Witness ==
    /\ Called("get_recommendations")
    /\ args.preferences.favorite_cuisines.isList
    /\ \E k \in 1..Len(ret.value) :
        /\ HasKey(ret.value[k], "similarity_score")
        /\ ret.value[k].similarity_score = ScoreCuisine + ScoreVegetarian
    /\ \E i, j \in 1..Len(meals_df) :
        /\ CuisineMatch(meals_df[i], args.preferences)
        /\ ~VegetarianMatch(meals_df[i], args.preferences)
        /\ ~CuisineMatch(meals_df[j], args.preferences)
        /\ VegetarianMatch(meals_df[j], args.preferences)

\* C19: the content scorer's output (favourite cuisines a list, n an int >= 0) is
\* made of catalog items with score > 0 only, holds min(n, number of such items)
\* of them, each at most once, is in non-increasing score order with items of
\* equal score in catalog order, and every item with score > 0 that is left out
\* ranks after every item that is kept.
C19_ContentScorerOutput ==
    (/\ Called("get_recommendations")
     /\ args.preferences.favorite_cuisines.isList
     /\ args.limit.isInt) =>
        LET p == args.preferences
            out == ContentBasedFiltering_get_recommendations(meals_df, p, args.limit)
            positive == {i \in 1..Len(meals_df) : ContentScore(meals_df[i], p) > 0}
        IN  /\ Len(out) = Min(args.limit.n, Cardinality(positive))
            /\ \A k \in 1..Len(out) :
                /\ IsRowOf(out[k], meals_df)
                /\ PositionOf(out[k], meals_df) \in positive
                /\ out[k].similarity_score > 0
            /\ \A k \in 1..(Len(out) - 1) : RankedBefore(out[k], out[k + 1], meals_df)
            /\ \A i \in positive :
                (\A k \in 1..Len(out) : out[k].id # meals_df[i].id) =>
                    \A k \in 1..Len(out) :
                        RankedBefore(out[k],
                            [id |-> meals_df[i].id,
                             similarity_score |-> ContentScore(meals_df[i], p)],
                            meals_df)

\* the scorer cut its list to n, left out an item scoring 0 that comes before a
\* kept item in the catalog, and kept two items of equal score that are not
\* neighbours in the catalog
C19_Witness ==
    /\ Called("get_recommendations")
    /\ args.preferences.favorite_cuisines.isList
    /\ args.limit.isInt
    /\ LET p == args.preferences
           out == ContentBasedFiltering_get_recommendations(meals_df, p, args.limit)
       IN  /\ Len(out) = 2
           /\ Cardinality({i \in 1..Len(meals_df) : ContentScore(meals_df[i], p) > 0}) > 2
           /\ \E i \in 1..Len(meals_df) :
                /\ ContentScore(meals_df[i], p) = 0
                /\ i < PositionOf(out[2], meals_df)
           /\ out[1].similarity_score = out[2].similarity_score
           /\ PositionOf(out[2], meals_df) > PositionOf(out[1], meals_df) + 1

\* C20: the popularity scorer returns at most n items (n an int >= 0), each a row
\* of the frame with explanation 'Popular among our users', algorithm =
\* 'collaborative' and predicted_rating equal to its rating, or 4.0 when it has no
\* rating; on a frame with ratings the items are the n best rated, in
\* non-increasing order of rating; on a frame with no rating data they are the
\* first n rows in catalog order; it does not fail.
C20_PopularityScorer ==
    (Called("CollaborativeFiltering.get_recommendations") /\ args.n.isInt) =>
        LET meals == args.meals_df
            out == ret.value
        IN  /\ ~ret.raised
            /\ Len(out) = Min(args.n.n, Len(meals))
            /\ \A i \in 1..Len(out) :
                /\ IsRowOf(out[i], meals)
                /\ out[i].explanation = <<"Popular among our users">>
                /\ out[i].algorithm = "collaborative"
                /\ out[i].predicted_rating =
                        (IF HasKey(out[i], "rating") THEN out[i].rating ELSE 40)
                /\ \A j \in 1..Len(out) : i # j => out[i].id # out[j].id
            /\ (\A j \in 1..Len(meals) : HasKey(meals[j], "rating")) =>
                /\ \A i \in 1..(Len(out) - 1) : out[i].rating >= out[i + 1].rating
                /\ \A j \in 1..Len(meals) :
                    (\A i \in 1..Len(out) : out[i].id # meals[j].id) =>
                        \A i \in 1..Len(out) : out[i].rating >= meals[j].rating
            /\ (\A j \in 1..Len(meals) : ~HasKey(meals[j], "rating")) =>
                \A i \in 1..Len(out) : RowOf(out[i]) = meals[i]

\* on a frame without ratings the scorer returned the first n of more rows, each
\* predicted 4.0
C20_Witness ==
    /\ Called("CollaborativeFiltering.get_recommendations")
    /\ args.n.isInt
    /\ args.n.n >= 2
    /\ Len(args.meals_df) > args.n.n
    /\ \A j \in 1..Len(args.meals_df) : ~HasKey(args.meals_df[j], "rating")
    /\ Len(ret.value) = args.n.n
    /\ \A i \in 1..Len(ret.value) : ret.value[i].predicted_rating = DefaultPredictedRating

\* C21: filter_by_dietary_restrictions returns exactly the sub-list of its input,
\* in input order, of the items none of whose tags conflicts with a recognised
\* restriction (matched case-insensitively): unknown restriction strings remove
\* nothing, an empty restriction list returns the input, and an item tagged
\* 'gluten-free' is kept under the 'gluten-free' restriction.
C21_FilterExactSubList ==
    (/\ Called("filter_by_dietary_restrictions")
     /\ \A i \in 1..Len(args.restrictions) : args.restrictions[i].isStr) =>
        /\ ~ret.raised
        /\ ret.value = Passing(args.meals, args.restrictions)

\* C22: the reward a feedback event adds to its arm is 1.0 when liked is true,
\* 0.0 when liked is false, rating / 5.0 when liked is absent and a (numeric)
\* rating is given, and 0.5 when neither is given; liked takes precedence over
\* the rating, and a payload with neither is accepted and still updates the arm.
C22_RewardMapping ==
    [][(/\ pc = "ready" /\ op' = "record_interaction"
        /\ (args'.liked # "None" \/ args'.rating.kind # "str")) =>
        LET arm == args'.meal_id
            added == arm_rewards'[arm].sum_rewards - arm_rewards[arm].sum_rewards
        IN  /\ arm_rewards'[arm].present
            /\ arm_rewards'[arm].count = arm_rewards[arm].count + 1
            /\ args'.liked = "True" => added = RewardUnit
            /\ args'.liked = "False" => added = 0
            /\ (args'.liked = "None" /\ args'.rating.kind = "int") =>
                    added * 5 = args'.rating.n * RewardUnit
            /\ (args'.liked = "None" /\ args'.rating.kind = "None") =>
                    added * 2 = RewardUnit]_vars

\* a like sent together with a rating of 4 added 1.0, not 0.8, to an arm that a
\* payload with neither field had already updated by 0.5
C22_Witness ==
    /\ Called("record_interaction")
    /\ args.liked = "True"
    /\ args.rating = PyNum(4)
    /\ arm_rewards[args.meal_id].count = 2
    /\ arm_rewards[args.meal_id].sum_rewards * 2 = 3 * RewardUnit

\* C23: every arm starts UNSEEN (no entry); an entry is created only by the
\* arm's first feedback update; an OBSERVED arm stays OBSERVED; over any sequence
\* of engine operations no arm's count decreases and no entry is removed or
\* reset.
C23_ArmLifecycle ==
    /\ \A a \in DOMAIN arm_rewards : ~arm_rewards[a].present
    /\ [][\A a \in DOMAIN arm_rewards :
            /\ arm_rewards'[a].count >= arm_rewards[a].count
            /\ arm_rewards[a].present => arm_rewards'[a].present
            /\ Observed(arm_rewards, a) => Observed(arm_rewards', a)
            /\ (~arm_rewards[a].present /\ arm_rewards'[a].present) =>
                    /\ op' = "record_interaction"
                    /\ args'.meal_id = a
                    /\ arm_rewards'[a].count = 1
            /\ arm_rewards'[a].present <=> arm_rewards'[a].count >= 1]_vars

\* a bandit selection over the whole catalog returned while one arm had been
\* updated MaxUpdates times and the other never: both are as they were
C23_Witness ==
    /\ Called("select_arms")
    /\ Len(args.available_arms) = Len(meals_df)
    /\ \E a \in DOMAIN arm_rewards : arm_rewards[a].count = MaxUpdates
    /\ \E a \in DOMAIN arm_rewards : ~arm_rewards[a].present

ReadOperations ==
    {"get_recommendations", "explore_recommendations", "get_similar_items",
     "get_popular_items", "get_trending_items", "select_arms"}

ObservedAmong(candidates) ==
    {i \in 1..Len(candidates) :
        HasKey(candidates[i], "id") /\ Observed(arm_rewards, candidates[i].id)}

\* C25: select_arms returns at most n arms, all distinct members of the
\* candidates; an arm taken on the exploit branch is OBSERVED whenever at least n
\* candidates are OBSERVED, so an UNSEEN arm is taken on the exploit branch only
\* when fewer than n OBSERVED candidates exist.
C25_ExploitPrefersObserved ==
    (Called("select_arms") /\ ~ret.raised) =>
        LET candidates == args.available_arms
            result == ret.value
        IN  /\ Len(result) <= args.n.n
            /\ \A j \in 1..Len(result) : \E i \in 1..Len(candidates) :
                    candidates[i] = result[j]
            /\ \A j, k \in 1..Len(result) : result[j] = result[k] => j = k
            /\ \A j \in 1..Len(result) : \A i \in DOMAIN args.explore :
                    (/\ candidates[i] = result[j]
                     /\ ~args.explore[i]
                     /\ \A c \in 1..Len(candidates) : HasKey(candidates[c], "id")
                     /\ Cardinality(ObservedAmong(candidates)) >= args.n.n) =>
                        Observed(arm_rewards, result[j].id)

AvailableIn(table) == {i \in 1..Len(table) : table[i].is_available = 1}

\* C26: the catalog load fails soft. When the store read raises or returns no
\* available row, the snapshot is the seed catalog of 10 items spanning 5
\* cuisines; otherwise it is exactly the store's available rows. The snapshot is
\* never empty after construction. A failing ratings read yields an empty
\* ratings set, never an exception.
C26_LoadFailsSoft ==
    /\ Len(meals_df) > 0
    /\ IF ~store_ok \/ AvailableIn(menu_items) = {}
       THEN /\ Len(meals_df) = 10
            /\ Cardinality({meals_df[i].cuisine : i \in 1..Len(meals_df)}) = 5
            /\ {meals_df[i].id : i \in 1..Len(meals_df)} = SampleIds
       ELSE /\ Len(meals_df) = Cardinality(AvailableIn(menu_items))
            /\ \A i \in AvailableIn(menu_items) :
                \E j \in 1..Len(meals_df) : meals_df[j] = menu_items[i]
            /\ \A j \in 1..Len(meals_df) :
                \E i \in AvailableIn(menu_items) : meals_df[j] = menu_items[i]
    /\ Called("_load_ratings_data") =>
        /\ ~ret.raised
        /\ ret.value.columns = {"user_id", "meal_id", "rating"}
        /\ ~args.ok => ret.value.rows = <<>>
        /\ args.ok => ret.value.rows = args.table

\* a store that answers but holds only an unavailable item gave the seed catalog,
\* and the ratings read that failed afterwards gave an empty ratings set
C26_Witness ==
    /\ store_ok /\ Len(menu_items) > 0 /\ AvailableIn(menu_items) = {}
    /\ meals_df = _create_sample_meals
    /\ Called("_load_ratings_data") /\ ~args.ok /\ Len(args.table) > 0
    /\ ret.value.rows = <<>>

UnavailableInStore(id) ==
    \A i \in 1..Len(menu_items) : menu_items[i].id = id => menu_items[i].is_available = 0

ReturnsItem(id) ==
    /\ pc = "returned"
    /\ ~ret.raised
    /\ \E j \in 1..Len(ret.value) : ret.value[j].id = id

\* C27: the snapshot is refreshed from the store, so an item that became
\* unavailable and stays unavailable is, from some later refresh on, never
\* returned by any operation again.
C27_UnavailableItemsDisappear ==
    \A id \in {"M1", "M2"} :
        (<>[]UnavailableInStore(id)) => <>[](~ReturnsItem(id))

\* the number of reasons in an explanation: one more than its separators
NumReasons(text) == 1 + Cardinality({i \in 1..Len(text) : text[i] = Bullet})

\* which of the five rules match, in priority order
MatchedRules(meal, preferences) ==
    << meal.cuisine \in Elems(preferences.favorite_cuisines.items),
       Elems(preferences.preferred_ingredients) \cap Elems(meal.ingredients) # {},
       meal.is_vegetarian # 0
            /\ Str(s_vegetarian) \in Elems(preferences.dietary_restrictions),
       meal.is_popular # 0,
       meal.reorder_frequency > 3 >>

NumMatched(meal, preferences) ==
    Cardinality({r \in 1..5 : MatchedRules(meal, preferences)[r]})

\* C28: the explanation of a personalized recommendation holds at most two
\* matched reasons, the two of highest priority when more rules match, joined by
\* the bullet separator; when no rule matches it is 'Recommended for you'.
C28_AtMostTwoReasons ==
    (Called("generate_explanation") /\ ~ret.raised) =>
        /\ NumMatched(args.meal, args.preferences) = 0 =>
                ret.value = <<"Recommended for you">>
        /\ NumMatched(args.meal, args.preferences) > 0 =>
                NumReasons(ret.value) = Min(2, NumMatched(args.meal, args.preferences))

\* C29: feedback events are append-only and complete. While the interaction store
\* accepts writes, every record_interaction call that updates the bandit appends
\* exactly one event, with action 'like', 'dislike' or 'view' according to
\* liked, and leaves every earlier event in place, so the number of persisted
\* events grows with the sum of the arm counts, whatever random id is drawn.
C29_EventsAppendOnly ==
    [][(/\ pc = "ready" /\ op' = "record_interaction"
        /\ args'.db_ok /\ args'.context_ok
        /\ TotalCount(arm_rewards') = TotalCount(arm_rewards) + 1) =>
        /\ Len(user_interactions') = Len(user_interactions) + 1
        /\ SubSeq(user_interactions', 1, Len(user_interactions)) = user_interactions
        /\ user_interactions'[Len(user_interactions')].meal_id = args'.meal_id
        /\ user_interactions'[Len(user_interactions')].action =
                (CASE args'.liked = "True" -> "like"
                   [] args'.liked = "False" -> "dislike"
                   [] OTHER -> "view")]_vars

Outcome == [exc |-> ret.raised, val |-> ret.value]

====
